---- MODULE Spec2Model ----
(***************************************************************************)
(* A model of server.js: an Express gateway that serves workout            *)
(* recommendations out of an in-memory catalog (POST /api/recommend and    *)
(* its legacy alias POST /recommend), proxies numeric profiles to a remote *)
(* Python service (POST /api/recommendations), reports liveness            *)
(* (GET /api/health) and serves the front-end bundle (GET * ).             *)
(*                                                                         *)
(* Every request is one slot of Req.  A handler runs to completion on the  *)
(* single-threaded event loop, so a handler is one action, except at an    *)
(* `await`, where it is split in the part before and the part after.       *)
(***************************************************************************)
EXTENDS Integers, Sequences, FiniteSets, TLC

\* Number of request slots (requests that arrive during one run).
MaxReq == 2

Req == 1..MaxReq

-----------------------------------------------------------------------------
(* JavaScript values.  A value is a record of a kind and a text, so that the *)
(* number 25 and the string "25" are different values.                       *)

Undefined == [kind |-> "undefined", text |-> ""]
Null == [kind |-> "null", text |-> ""]
Num(t) == [kind |-> "number", text |-> t]
Str(t) == [kind |-> "string", text |-> t]
Fn(t) == [kind |-> "function", text |-> t]
Obj(t) == [kind |-> "object", text |-> t]
NaN == Num("NaN")

\* ToBoolean, as used by `!x`, `x && y` and `x || y`.
ToBoolean(v) ==
  CASE v.kind \in {"undefined", "null"} -> FALSE
    [] v.kind = "number" -> v.text \notin {"0", "NaN"}
    [] v.kind = "string" -> v.text /= ""
    [] OTHER -> TRUE

\* The texts of the model that are a StringNumericLiteral, white space apart.
NumericTexts == {"25", "170", "60"}

\* The texts of the model that are empty or white space only.
BlankTexts == {"", " "}

\* ToNumber, as applied by the global isNaN to its argument.
ToNumber(v) ==
  CASE v.kind = "number" -> v
    [] v.kind = "null" -> Num("0")
    [] v.kind = "string" ->
         IF v.text \in BlankTexts THEN Num("0")
         ELSE IF v.text \in NumericTexts THEN Num(v.text)
         ELSE NaN
    [] OTHER -> NaN

\* The global isNaN(v): ToNumber(v) is NaN.
IsNaN(v) == ToNumber(v) = NaN

\* parseFloat(v): the longest numeric prefix of ToString(v), white space
\* skipped, and NaN when there is none.
ParseFloat(v) ==
  CASE v.kind = "number" -> v
    [] v.kind = "string" ->
         IF v.text \in NumericTexts THEN Num(v.text) ELSE NaN
    [] OTHER -> NaN

\* The names every plain object inherits from Object.prototype.
ObjectPrototypeKeys == {"constructor", "toString", "hasOwnProperty", "__proto__"}

\* What a plain object yields for an inherited name.
ObjectPrototypeValue(k) ==
  IF k = "__proto__" THEN Obj("Object.prototype") ELSE Fn(k)

-----------------------------------------------------------------------------
(* The workout catalog: categories in for-in order, each a sequence of      *)
(* subcategories in for-in order, each a sequence of exercise records.      *)

Exercise(n, k) == [nama |-> n, kesulitan |-> k]

Catalog ==
  << [name |-> "strength",
      subs |-> << [name |-> "upper",
                   list |-> << Exercise("push-up", "Easy"),
                               Exercise("pull-up", "Hard") >>],
                  [name |-> "lower",
                   list |-> << Exercise("squat", "Easy") >>] >>],
     [name |-> "endurance",
      subs |-> << [name |-> "cardio",
                   list |-> << Exercise("sprint", "Hard"),
                               Exercise("jogging", "Easy") >>] >>] >>

VARIABLES
  workouts,   \* the catalog object the handlers read
  route,      \* route[r]: the method and path request r is dispatched on
  pc,         \* pc[r]: where the handling of request r stands
  body,       \* body[r]: req.body as the handler read it
  calls,      \* calls[r]: outbound calls issued for request r
  sent,       \* sent[r]: the payload of the outbound call of request r
  outcome,    \* outcome[r]: how the outbound call of request r ended
  response    \* response[r]: what was sent back to the caller

vars == << workouts, route, pc, body, calls, sent, outcome, response >>

RecommendRoute == "POST /api/recommend"
LegacyRoute == "POST /recommend"
ProxyRoute == "POST /api/recommendations"
HealthRoute == "GET /api/health"
FallbackRoute == "GET *"
Routes == {RecommendRoute, LegacyRoute, ProxyRoute, HealthRoute, FallbackRoute}

NoBody == [workoutType |-> Undefined, difficultyLevel |-> Undefined,
           age |-> Undefined, height |-> Undefined, weight |-> Undefined]
NoOutcome == [kind |-> "none", code |-> "", status |-> 0, data |-> Undefined,
              message |-> ""]
NoPayload == [age |-> Undefined, height |-> Undefined, weight |-> Undefined]
NoResponse == [status |-> 0, success |-> "", error |-> "", recommendations |-> << >>,
               data |-> Undefined, expressServer |-> "", pythonServer |-> Undefined,
               file |-> ""]

Init ==
  /\ workouts = Catalog
  /\ route = [r \in Req |-> ""]
  /\ pc = [r \in Req |-> "idle"]
  /\ body = [r \in Req |-> NoBody]
  /\ calls = [r \in Req |-> 0]
  /\ sent = [r \in Req |-> NoPayload]
  /\ outcome = [r \in Req |-> NoOutcome]
  /\ response = [r \in Req |-> NoResponse]

-----------------------------------------------------------------------------
(* Responses *)

\* res.status(status).json({success: false, error: message})
errorResponse(status, message) ==
  [NoResponse EXCEPT !.status = status, !.success = "false", !.error = message]

\* res.json({success: true, recommendations: list})
RecommendationsJson(list) ==
  [NoResponse EXCEPT !.status = 200, !.success = "true", !.recommendations = list]

\* res.json(data)
RelayJson(data) == [NoResponse EXCEPT !.status = 200, !.data = data]

\* res.json({expressServer: 'ok', pythonServer: python, error: message})
HealthJson(python, message) ==
  [NoResponse EXCEPT !.status = 200, !.expressServer = "ok",
                     !.pythonServer = python, !.error = message]

\* res.sendFile(dist/index.html)
IndexFile == [NoResponse EXCEPT !.status = 200, !.file = "dist/index.html"]

-----------------------------------------------------------------------------
(* A request arrives and Express dispatches it on its route.  Slots are     *)
(* taken in order.                                                          *)
Arrive(r, rt) ==
  /\ pc[r] = "idle"
  /\ \A q \in Req : q < r => pc[q] /= "idle"
  /\ route' = [route EXCEPT ![r] = rt]
  /\ pc' = [pc EXCEPT ![r] = "received"]
  /\ UNCHANGED << workouts, body, calls, sent, outcome, response >>

-----------------------------------------------------------------------------
(* POST /api/recommend *)

\* The bodies a caller may post to POST /api/recommend.
WorkoutTypes ==
  {Undefined, Str("semua"), Str("strength"), Str("yoga"), Str("toString")}
DifficultyLevels ==
  {Undefined, Str(""), Str("all"), Str("beginner"), Str("intermediate"),
   Str("advanced"), Str("Hard"), Str("constructor")}
RecommendBodies ==
  {[NoBody EXCEPT !.workoutType = t, !.difficultyLevel = d] :
     t \in WorkoutTypes, d \in DifficultyLevels}

\* difficultyMap[difficultyLevel] || difficultyLevel, where difficultyMap is a
\* plain object literal: a name it does not own is looked up on Object.prototype.
mapDifficultyLevel(difficultyLevel) ==
  LET key == difficultyLevel.text
      found ==
        CASE difficultyLevel.kind /= "string" -> Undefined
          [] key = "beginner" -> Str("Easy")
          [] key = "intermediate" -> Str("Medium")
          [] key = "advanced" -> Str("Hard")
          [] key \in ObjectPrototypeKeys -> ObjectPrototypeValue(key)
          [] OTHER -> Undefined
  IN IF ToBoolean(found) THEN found ELSE difficultyLevel

\* for (const sub in type) list = [...list, ...type[sub]], from `list` on.
RECURSIVE AppendSubs(_, _)
AppendSubs(list, subs) ==
  IF subs = << >> THEN list
  ELSE AppendSubs(list \o Head(subs).list, Tail(subs))

\* for (const type in workouts) for (const sub in workouts[type]) ..., from `list` on.
RECURSIVE AppendTypes(_, _)
AppendTypes(list, types) ==
  IF types = << >> THEN list
  ELSE AppendTypes(AppendSubs(list, Head(types).subs), Tail(types))

\* The names the catalog object owns.
OwnTypes(w) == {w[i].name : i \in DOMAIN w}

\* workouts[workoutType] is truthy: an own category, or a name inherited from
\* Object.prototype.
HasType(w, workoutType) ==
  /\ workoutType.kind = "string"
  /\ workoutType.text \in OwnTypes(w) \cup ObjectPrototypeKeys

\* The subcategories for-in enumerates on workouts[workoutType]: those of an
\* own category, none on an inherited function or object.
SubsOf(w, workoutType) ==
  IF workoutType.text \in OwnTypes(w)
  THEN (CHOOSE c \in {w[i] : i \in DOMAIN w} : c.name = workoutType.text).subs
  ELSE << >>

\* if (difficultyLevel && difficultyLevel !== 'all') list.filter(kesulitan === mapped)
FilterUnmapped(list, difficultyLevel) ==
  IF ToBoolean(difficultyLevel) /\ difficultyLevel /= Str("all")
  THEN SelectSeq(list, LAMBDA x : Str(x.kesulitan) = difficultyLevel)
  ELSE list

FilterByDifficulty(list, difficultyLevel) ==
  IF ToBoolean(difficultyLevel) /\ difficultyLevel /= Str("all")
  THEN LET mappedDifficulty == mapDifficultyLevel(difficultyLevel)
       IN SelectSeq(list, LAMBDA x : Str(x.kesulitan) = mappedDifficulty)
  ELSE list

\* The response of the handler of POST /api/recommend to body b on catalog w.
RecommendResponse(w, b) ==
  IF ~ToBoolean(b.workoutType)
  THEN errorResponse(400, "Workout type is required")
  ELSE IF b.workoutType = Str("semua")
  THEN RecommendationsJson(FilterByDifficulty(AppendTypes(<< >>, w), b.difficultyLevel))
  ELSE IF HasType(w, b.workoutType)
  THEN RecommendationsJson(
         FilterByDifficulty(AppendSubs(<< >>, SubsOf(w, b.workoutType)),
                            b.difficultyLevel))
  ELSE errorResponse(400, "Invalid workout type")

\* The handler on body b, leaving the catalog as w2.
RecommendOn(r, b, w2) ==
  /\ pc[r] = "received"
  /\ route[r] = RecommendRoute
  /\ body' = [body EXCEPT ![r] = b]
  /\ response' = [response EXCEPT ![r] = RecommendResponse(workouts, b)]
  /\ pc' = [pc EXCEPT ![r] = "done"]
  /\ workouts' = w2
  /\ UNCHANGED << route, calls, sent, outcome >>

\* A handler that filters the catalog's own lists in place.
FilteredInPlace(w, d) ==
  [i \in DOMAIN w |->
     [w[i] EXCEPT !.subs =
        [j \in DOMAIN w[i].subs |->
           [w[i].subs[j] EXCEPT !.list = FilterByDifficulty(@, d)]]]]

RecommendInPlace(r) ==
  \E b \in RecommendBodies : RecommendOn(r, b, FilteredInPlace(workouts, b.difficultyLevel))

\* A handler that cannot run while an outbound call is pending.
RecommendBlocked(r) ==
  /\ \A q \in Req : pc[q] /= "awaiting"
  /\ \E b \in RecommendBodies : RecommendOn(r, b, workouts)

Recommend(r) ==
  \E b \in RecommendBodies : RecommendOn(r, b, workouts)

\* POST /recommend: req.url = '/api/recommend'; app._router.handle(req, res)
LegacyRecommend(r) ==
  /\ pc[r] = "received"
  /\ route[r] = LegacyRoute
  /\ route' = [route EXCEPT ![r] = RecommendRoute]
  /\ UNCHANGED << workouts, pc, body, calls, sent, outcome, response >>

-----------------------------------------------------------------------------
(* POST /api/recommendations *)

\* The bodies a caller may post to POST /api/recommendations: a numeric
\* profile, a profile with one field that is no number, and an empty body.
NotNumbers == {Undefined, Str("abc"), Str(" ")}
Profile == [NoBody EXCEPT !.age = Num("25"), !.height = Num("170"), !.weight = Num("60")]
ProfileBodies ==
  {Profile, NoBody}
    \cup {[Profile EXCEPT !.age = v] : v \in NotNumbers}
    \cup {[Profile EXCEPT !.height = v] : v \in NotNumbers}
    \cup {[Profile EXCEPT !.weight = v] : v \in NotNumbers}

\* !age || !height || !weight || isNaN(age) || isNaN(height) || isNaN(weight)
Rejected(b) ==
  \/ ~ToBoolean(b.age) \/ ~ToBoolean(b.height) \/ ~ToBoolean(b.weight)
  \/ IsNaN(b.age) \/ IsNaN(b.height) \/ IsNaN(b.weight)

\* {age: parseFloat(age), height: parseFloat(height), weight: parseFloat(weight)}
Payload(b) ==
  [age |-> ParseFloat(b.age), height |-> ParseFloat(b.height),
   weight |-> ParseFloat(b.weight)]

\* The handler up to its await: the validation, then the outbound axios.post.
Recommendations(r) ==
  /\ pc[r] = "received"
  /\ route[r] = ProxyRoute
  /\ \E b \in ProfileBodies :
       /\ body' = [body EXCEPT ![r] = b]
       /\ IF Rejected(b)
          THEN /\ response' = [response EXCEPT ![r] =
                   errorResponse(400, "Missing required fields or invalid data types")]
               /\ pc' = [pc EXCEPT ![r] = "done"]
               /\ UNCHANGED << calls, sent >>
          ELSE /\ calls' = [calls EXCEPT ![r] = @ + 1]
               /\ sent' = [sent EXCEPT ![r] = Payload(b)]
               /\ pc' = [pc EXCEPT ![r] = "awaiting"]
               /\ UNCHANGED response
  /\ UNCHANGED << workouts, route, outcome >>

\* How axios settles the promise of an outbound call.
Resolved(data) ==
  [NoOutcome EXCEPT !.kind = "resolved", !.status = 200, !.data = data]
Failed(code, message) ==
  [NoOutcome EXCEPT !.kind = "failed", !.code = code, !.message = message]
BadStatus(status, data) ==
  [NoOutcome EXCEPT !.kind = "failed", !.code = "ERR_BAD_RESPONSE", !.status = status,
                    !.data = data, !.message = "Request failed"]

\* error.response is set: the remote service answered with an error status.
HasResponse(o) == o.kind = "failed" /\ o.status /= 0

\* The value of data.<name> for the one field the handlers read of a body; an
\* object's text is that field's value, "" when the object has no such field.
Field(data) ==
  IF data.kind = "object" /\ data.text /= "" THEN Str(data.text) ELSE Undefined

\* Reading a property of null or undefined throws a TypeError.
ReadThrows(data) == data.kind \in {"undefined", "null"}

ProxyOutcomes ==
  {Resolved(Obj("plan")),
   Failed("ECONNREFUSED", "connect ECONNREFUSED"),
   Failed("ENOTFOUND", "getaddrinfo ENOTFOUND"),
   Failed("ETIMEDOUT", "connect ETIMEDOUT"),
   BadStatus(404, Obj("no such user")),
   BadStatus(500, Obj("")),
   BadStatus(502, Str("Bad Gateway")),
   BadStatus(500, Null)}

\* The catch block: the response for a failed outbound call.  The read of
\* error.response.data.error throws when data is null, and nothing is sent.
FailureResponse(o) ==
  IF o.code \in {"ECONNREFUSED", "ENOTFOUND"}
  THEN errorResponse(503, "Python server is not available. Please try again later.")
  ELSE IF HasResponse(o)
  THEN IF ReadThrows(o.data) THEN NoResponse
       ELSE errorResponse(o.status,
              "Python server error: " \o
                (IF ToBoolean(Field(o.data)) THEN Field(o.data).text ELSE "Unknown error"))
  ELSE errorResponse(500, "Failed to process request with Python server")

\* The handler after its await, the outbound call having settled as o.
ResumeWith(r, o) ==
  /\ outcome' = [outcome EXCEPT ![r] = o]
  /\ IF o.kind = "resolved"
     THEN /\ response' = [response EXCEPT ![r] = RelayJson(o.data)]
          /\ pc' = [pc EXCEPT ![r] = "done"]
     ELSE /\ response' = [response EXCEPT ![r] = FailureResponse(o)]
          /\ pc' = [pc EXCEPT ![r] =
                      IF FailureResponse(o) = NoResponse THEN "rejected" ELSE "done"]
  /\ UNCHANGED << workouts, route, body, calls, sent >>

\* A handler that calls the remote service again when the call fails.
RetryOnce(r, o) ==
  IF o.kind = "failed" /\ calls[r] < 2
  THEN /\ calls' = [calls EXCEPT ![r] = @ + 1]
       /\ outcome' = [outcome EXCEPT ![r] = o]
       /\ UNCHANGED << workouts, route, pc, body, sent, response >>
  ELSE ResumeWith(r, o)

Settle(r, o) == ResumeWith(r, o)

RecommendationsResume(r) ==
  /\ pc[r] = "awaiting"
  /\ route[r] = ProxyRoute
  /\ \E o \in ProxyOutcomes : Settle(r, o)

-----------------------------------------------------------------------------
(* GET /api/health *)

\* The handler up to its await: axios.get(..., {timeout: 5000}).
Health(r) ==
  /\ pc[r] = "received"
  /\ route[r] = HealthRoute
  /\ calls' = [calls EXCEPT ![r] = @ + 1]
  /\ pc' = [pc EXCEPT ![r] = "awaiting"]
  /\ UNCHANGED << workouts, route, body, sent, outcome, response >>

HealthOutcomes ==
  {Resolved(Obj("healthy")),
   Resolved(Obj("")),
   Resolved(Str("pong")),
   Resolved(Null),
   Failed("ECONNREFUSED", "connect ECONNREFUSED"),
   Failed("ECONNABORTED", "timeout of 5000ms exceeded"),
   BadStatus(500, Null)}

\* A handler without the catch block: an error leaves the request unanswered.
HealthUncaught(o) ==
  IF o.kind = "resolved" /\ ~ReadThrows(o.data)
  THEN HealthJson(IF ToBoolean(Field(o.data)) THEN Field(o.data) ELSE Str("ok"), "")
  ELSE NoResponse

\* try { pythonServer: pythonHealth.data.status || 'ok' } catch { 'offline' }
HealthResponse(o) ==
  IF o.kind = "resolved"
  THEN IF ReadThrows(o.data)
       THEN HealthJson(Str("offline"), "Cannot read properties of null")
       ELSE HealthJson(IF ToBoolean(Field(o.data)) THEN Field(o.data) ELSE Str("ok"), "")
  ELSE HealthJson(Str("offline"), o.message)

\* The handler after its await.
HealthResume(r) ==
  /\ pc[r] = "awaiting"
  /\ route[r] = HealthRoute
  /\ \E o \in HealthOutcomes :
       /\ outcome' = [outcome EXCEPT ![r] = o]
       /\ response' = [response EXCEPT ![r] = HealthResponse(o)]
       /\ pc' = [pc EXCEPT ![r] =
                   IF HealthResponse(o) = NoResponse THEN "rejected" ELSE "done"]
  /\ UNCHANGED << workouts, route, body, calls, sent >>

\* GET * : the front-end entry document.
Fallback(r) ==
  /\ pc[r] = "received"
  /\ route[r] = FallbackRoute
  /\ response' = [response EXCEPT ![r] = IndexFile]
  /\ pc' = [pc EXCEPT ![r] = "done"]
  /\ UNCHANGED << workouts, route, body, calls, sent, outcome >>

Next ==
  \/ \E r \in Req, rt \in Routes : Arrive(r, rt)
  \/ \E r \in Req : Fallback(r)
  \/ \E r \in Req : Recommend(r)
  \/ \E r \in Req : LegacyRecommend(r)
  \/ \E r \in Req : Recommendations(r)
  \/ \E r \in Req : RecommendationsResume(r)
  \/ \E r \in Req : Health(r)
  \/ \E r \in Req : HealthResume(r)

Spec == Init /\ [][Next]_vars

\* The event loop runs every handler that is ready, and the outbound call of
\* GET /api/health settles within its 5000 ms timeout.  Nothing makes the
\* outbound call of POST /api/recommendations settle: it has no timeout.
Fairness ==
  \A r \in Req :
    /\ WF_vars(Recommend(r))
    /\ WF_vars(LegacyRecommend(r))
    /\ WF_vars(Fallback(r))
    /\ WF_vars(Recommendations(r))
    /\ WF_vars(Health(r))
    /\ WF_vars(HealthResume(r))

FairSpec == Init /\ [][Next]_vars /\ Fairness


-----------------------------------------------------------------------------
(* Properties *)

Handled(r, rt) == route[r] = rt /\ pc[r] \in {"awaiting", "done", "rejected"}
Finished(r, rt) == route[r] = rt /\ pc[r] \in {"done", "rejected"}
Answered(r) == response[r].status /= 0

\* A value that is absent or that parseFloat does not read as a number.
NotANumber(v) == v = Undefined \/ ParseFloat(v) = NaN

\* C1: a POST /api/recommendations request in which age, height or weight is
\* absent or not parseable as a number is answered 400 with success:false, and
\* no outbound call is issued for it.
C1_MalformedProfileRejected ==
  \A r \in Req :
    ( /\ Handled(r, ProxyRoute)
      /\ \/ NotANumber(body[r].age)
         \/ NotANumber(body[r].height)
         \/ NotANumber(body[r].weight) )
    => /\ response[r].status = 400
       /\ response[r].success = "false"
       /\ calls[r] = 0

\* C2: a POST /api/recommendations request that passed the validation has
\* issued exactly one outbound call, from the call on and whatever its outcome.
C2_ExactlyOneOutboundCall ==
  \A r \in Req :
    (Handled(r, ProxyRoute) /\ ~Rejected(body[r])) => calls[r] = 1

C2_Witness ==
  \E r \in Req :
    /\ Finished(r, ProxyRoute)
    /\ outcome[r].kind = "failed"
    /\ calls[r] = 1
    /\ Answered(r)

\* The messages an upstream error is reported with.
UpstreamMessages ==
  {"Python server error: " \o t : t \in {"Unknown error", "no such user"}}

\* C3: a failed outbound call of POST /api/recommendations is answered by its
\* kind: 503 for ECONNREFUSED / ENOTFOUND, the upstream's own status and a
\* prefixed message for an upstream error response, 500 and a generic message
\* otherwise, each with the body {success:false, error}.
C3_FailureClassified ==
  \A r \in Req :
    (Finished(r, ProxyRoute) /\ outcome[r].kind = "failed") =>
      /\ response[r].success = "false"
      /\ response[r].error /= ""
      /\ IF outcome[r].code \in {"ECONNREFUSED", "ENOTFOUND"}
         THEN response[r].status = 503
         ELSE IF HasResponse(outcome[r])
         THEN /\ response[r].status = outcome[r].status
              /\ response[r].error \in UpstreamMessages
         ELSE /\ response[r].status = 500
              /\ response[r].error = "Failed to process request with Python server"

\* C4: every failure of the outbound call of POST /api/recommendations is
\* reported: once the call has failed, the caller has its response, and no
\* further outbound call was issued.
C4_FailureReported ==
  \A r \in Req :
    (Handled(r, ProxyRoute) /\ outcome[r].kind = "failed") =>
      /\ pc[r] = "done"
      /\ Answered(r)
      /\ calls[r] = 1

\* C5: a POST /api/recommend request whose workoutType is non-empty, is not
\* 'semua' and names no category of the catalog is answered 400 'Invalid
\* workout type', and issues no outbound call.
C5_UnknownCategoryRejected ==
  \A r \in Req :
    ( /\ Finished(r, RecommendRoute)
      /\ ToBoolean(body[r].workoutType)
      /\ body[r].workoutType /= Str("semua")
      /\ body[r].workoutType.text \notin OwnTypes(Catalog) )
    => /\ response[r] = errorResponse(400, "Invalid workout type")
       /\ calls[r] = 0

\* The lists of the subcategories, and of the categories, one after the other.
RECURSIVE SubsInOrder(_)
SubsInOrder(subs) ==
  IF subs = << >> THEN << >> ELSE Head(subs).list \o SubsInOrder(Tail(subs))
RECURSIVE TypesInOrder(_)
TypesInOrder(types) ==
  IF types = << >> THEN << >>
  ELSE SubsInOrder(Head(types).subs) \o TypesInOrder(Tail(types))

\* The categories a workoutType selects.
SelectedTypes(workoutType) ==
  IF workoutType = Str("semua") THEN Catalog
  ELSE SelectSeq(Catalog, LAMBDA c : c.name = workoutType.text)

\* The records of a list whose difficulty label is the mapped difficulty.
WithLabel(list, difficultyLevel) ==
  SelectSeq(list, LAMBDA x : Str(x.kesulitan) = mapDifficultyLevel(difficultyLevel))

RECURSIVE TotalOfSubs(_)
TotalOfSubs(subs) ==
  IF subs = << >> THEN 0 ELSE Len(Head(subs).list) + TotalOfSubs(Tail(subs))
RECURSIVE TotalOfTypes(_)
TotalOfTypes(types) ==
  IF types = << >> THEN 0 ELSE TotalOfSubs(Head(types).subs) + TotalOfTypes(Tail(types))

Succeeded(r) == Finished(r, RecommendRoute) /\ response[r].success = "true"

\* C6 as stated: the recommendations of a successful POST /api/recommend are
\* the selected categories' lists in order, restricted to the records with the
\* mapped difficulty whenever difficultyLevel is present and not 'all'.
C6_FilterWhenPresent ==
  \A r \in Req :
    Succeeded(r) =>
      LET all == TypesInOrder(SelectedTypes(body[r].workoutType))
          d == body[r].difficultyLevel
      IN response[r].recommendations =
           IF d /= Undefined /\ d /= Str("all") THEN WithLabel(all, d) ELSE all

\* C6: the recommendations of a successful POST /api/recommend are the
\* selected categories' lists in order (category, subcategory, record),
\* restricted to the records with the mapped difficulty whenever
\* difficultyLevel is present, not empty and not 'all'; 'semua' with no filter
\* returns as many records as the catalog holds.
C6_RecommendationsInOrder ==
  \A r \in Req :
    Succeeded(r) =>
      LET all == TypesInOrder(SelectedTypes(body[r].workoutType))
          d == body[r].difficultyLevel
          filtered == d \notin {Undefined, Str(""), Str("all")}
      IN /\ response[r].status = 200
         /\ response[r].recommendations = IF filtered THEN WithLabel(all, d) ELSE all
         /\ (body[r].workoutType = Str("semua") /\ ~filtered)
              => Len(response[r].recommendations) = TotalOfTypes(Catalog)

C6_Witness ==
  /\ \E r \in Req :
       /\ Succeeded(r)
       /\ body[r].workoutType = Str("semua")
       /\ body[r].difficultyLevel = Str("beginner")
       /\ Len(response[r].recommendations) = 3
  /\ \E r \in Req :
       /\ Succeeded(r)
       /\ body[r].workoutType = Str("strength")
       /\ body[r].difficultyLevel = Str("intermediate")
       /\ response[r].recommendations = << >>

\* C7: mapDifficultyLevel returns 'Easy', 'Medium', 'Hard' for 'beginner',
\* 'intermediate', 'advanced' and every other input unchanged, for every
\* difficultyLevel the handler passes to it.
C7_MapperIsAliasOrIdentity ==
  \A r \in Req :
    ( /\ Succeeded(r)
      /\ ToBoolean(body[r].difficultyLevel)
      /\ body[r].difficultyLevel /= Str("all") )
    => LET d == body[r].difficultyLevel
       IN mapDifficultyLevel(d) =
            CASE d = Str("beginner") -> Str("Easy")
              [] d = Str("intermediate") -> Str("Medium")
              [] d = Str("advanced") -> Str("Hard")
              [] OTHER -> d

HealthShape(r) ==
  /\ pc[r] = "done"
  /\ response[r].status = 200
  /\ response[r].expressServer = "ok"

\* C8 as stated: a finished GET /api/health is a 200 with expressServer 'ok',
\* pythonServer being the remote status when the call succeeded and 'offline'
\* with an error reason when it did not.
C8_RemoteStatusWheneverReachable ==
  \A r \in Req :
    Finished(r, HealthRoute) =>
      /\ HealthShape(r)
      /\ IF outcome[r].kind = "resolved"
         THEN response[r].pythonServer = Field(outcome[r].data)
         ELSE response[r].pythonServer = Str("offline") /\ response[r].error /= ""

\* What GET /api/health reports for an outbound call that settled as o.
Reported(r, o) ==
  IF o.kind = "resolved" /\ o.data.kind \notin {"null", "undefined"}
  THEN /\ response[r].pythonServer =
            (IF ToBoolean(Field(o.data)) THEN Field(o.data) ELSE Str("ok"))
       /\ response[r].error = ""
  ELSE /\ response[r].pythonServer = Str("offline")
       /\ response[r].error /= ""

\* C8: GET /api/health never fails: whatever the outcome of its outbound call,
\* the handler eventually sends a 200 with expressServer 'ok'; pythonServer is
\* the status of the remote body when the call succeeds with a body that has a
\* non-empty one, 'ok' when it succeeds with another body that is not null, and
\* 'offline' with an error reason when the call fails or its body is null.
C8_HealthNeverFails ==
  /\ \A r \in Req :
       (route[r] = HealthRoute /\ pc[r] = "received") ~> (HealthShape(r) /\ Answered(r))
  /\ [](\A r \in Req :
          Finished(r, HealthRoute) => (HealthShape(r) /\ Reported(r, outcome[r])))

C8_Witness ==
  /\ \E r \in Req :
       /\ Finished(r, HealthRoute)
       /\ outcome[r].code = "ECONNABORTED"
       /\ response[r].pythonServer = Str("offline")
  /\ \E r \in Req :
       /\ Finished(r, HealthRoute)
       /\ outcome[r].kind = "resolved"
       /\ response[r].pythonServer = Str("healthy")

\* C9: the catalog is never mutated: it is at every moment what it was at
\* process start, and two POST /api/recommend requests with the same body get
\* the same response, whatever was handled before or in between.
C9_CatalogReadOnly ==
  /\ workouts = Catalog
  /\ \A r, q \in Req :
       (Finished(r, RecommendRoute) /\ Finished(q, RecommendRoute) /\ body[r] = body[q])
         => response[r] = response[q]

C9_Witness ==
  \E r, q \in Req :
    /\ r /= q
    /\ Succeeded(r) /\ Succeeded(q)
    /\ body[r] = body[q]
    /\ body[r].difficultyLevel = Str("advanced")
    /\ Len(response[q].recommendations) = 2

\* C10: a pending outbound call of POST /api/recommendations blocks no other
\* request: every POST /api/recommend request that arrives is handled to
\* completion and answered, even when pending calls never settle.
C10_RecommendNotBlocked ==
  \A r \in Req :
    (route[r] = RecommendRoute /\ pc[r] = "received")
      ~> (pc[r] = "done" /\ Answered(r))

C10_Witness ==
  \E r, q \in Req :
    /\ q < r
    /\ route[q] = ProxyRoute /\ pc[q] = "awaiting"
    /\ route[r] = RecommendRoute /\ pc[r] = "done" /\ Answered(r)

====
